---- MODULE Spec2Model ----
(***************************************************************************)
(* Model of claude-code-server-sync (src/src/sync.py): the path-rewriting  *)
(* engine (iter_rules, apply_rewrites), the file walker                    *)
(* (rewrite_jsonl_files) and the sync orchestrator (pull_project,          *)
(* push_project, sync_all, main).                                          *)
(*                                                                         *)
(* A Python str is a sequence of one-character strings.                    *)
(***************************************************************************)
EXTENDS Integers, Sequences, FiniteSets, TLC

VARIABLES
    \* ---- rewrite engine: one call of apply_rewrites(text, rules, direction)
    rules,        \* the rewrite_rules list handed to apply_rewrites
    direction,    \* "server_to_mac" | "mac_to_server"
    text,         \* the input text
    emitted,      \* the (source, target) pairs iter_rules yields, in order
    idx,          \* position of the for loop of apply_rewrites in emitted
    updated,      \* the local `updated` of apply_rewrites
    back,         \* result of the reverse pass over the returned text
    rpc,          \* "start" | "loop" | "done" | "roundtrip" | "off"
    \* ---- one run of main()
    config,       \* the parsed configuration file
    args,         \* the parsed command line
    pc,           \* main: "load" | "dispatch" | "call" | "sync_all" | "exit"
    exit_code,    \* the value main returns (-1 while it runs)
    sa,           \* sync_all: [phase, i], its loop and position
    failures,     \* sync_all: the list `failures` of (name, exception)
    op,           \* the running pull_project / push_project call
    temp_dirs,    \* the staging directories that exist
    next_tmp,     \* mkdtemp: the next fresh directory name
    local_dirs,   \* names of the projects whose local directory exists
    cmds,         \* every command handed to run_cmd, in order
    prompts,      \* every input() prompt, with its answer
    calls,        \* every call of pull_project / push_project, in order
    outcomes,     \* how each of these calls ended, in order
    files,        \* the *.jsonl files of the staging directory
    widx,         \* rewrite_jsonl_files: position in the enumeration
    count,        \* rewrite_jsonl_files: the local `count`
    writes,       \* rewrite_jsonl_files: indices of the files written
    staged,       \* the *.jsonl files as the staging transfer left them
    \* ---- several runs of main() at once, on one machine
    invocations,  \* per run: its pull_project / push_project call
    scratch       \* the system temporary directory: per path, what it holds

rwVars == <<rules, direction, text, emitted, idx, updated, back, rpc>>

cfgVars == <<config, args>>

logVars == <<cmds, prompts, calls, outcomes>>

fsVars == <<temp_dirs, next_tmp, local_dirs>>

walkVars == <<files, widx, count, writes, staged>>

runVars == <<config, args, pc, exit_code, sa, failures, op, temp_dirs, next_tmp,
             local_dirs, cmds, prompts, calls, outcomes, files, widx, count, writes,
             staged>>

conVars == <<invocations, scratch>>

vars == <<rwVars, runVars, conVars>>

\* ------------------------------------------------------------------ bounds

MaxPatLen == 2
MaxRules == 2
MaxTextLen == 3
MaxWideTextLen == 2
MaxProjects == 3
MaxFiles == 2
MaxInvocations == 2

\* ----------------------------------------------------------------- strings

Alphabet == {"a", "b"}

RECURSIVE StringsUpTo(_, _)
StringsUpTo(A, n) ==
    IF n = 0 THEN {<<>>}
    ELSE LET shorter == StringsUpTo(A, n - 1)
         IN  shorter \cup {Append(s, c) : s \in shorter, c \in A}

RECURSIVE SeqsUpTo(_, _)
SeqsUpTo(S, n) ==
    IF n = 0 THEN {<<>>}
    ELSE LET shorter == SeqsUpTo(S, n - 1)
         IN  shorter \cup {Append(s, x) : s \in shorter, x \in S}

\* s[i .. i+Len(p)-1] = p
OccursAt(s, p, i) ==
    /\ i >= 1
    /\ i + Len(p) - 1 <= Len(s)
    /\ SubSeq(s, i, i + Len(p) - 1) = p

\* Python's `p in s`
IsSubstring(p, s) == \E i \in 1..(Len(s) + 1) : OccursAt(s, p, i)

\* str.replace(old, new) with old non-empty: the occurrences are taken left
\* to right, each search resuming after the previous match.
RECURSIVE ReplaceFrom(_, _, _, _)
ReplaceFrom(s, old, new, i) ==
    IF i + Len(old) - 1 > Len(s) THEN SubSeq(s, i, Len(s))
    ELSE IF SubSeq(s, i, i + Len(old) - 1) = old
         THEN new \o ReplaceFrom(s, old, new, i + Len(old))
         ELSE <<s[i]>> \o ReplaceFrom(s, old, new, i + 1)

\* str.replace(old, new) with old empty: new is put before every character
\* and at the end.
RECURSIVE Interleave(_, _, _)
Interleave(s, new, i) ==
    IF i > Len(s) THEN new
    ELSE new \o <<s[i]>> \o Interleave(s, new, i + 1)

Replace(s, old, new) ==
    IF old = <<>> THEN Interleave(s, new, 1)
    ELSE ReplaceFrom(s, old, new, 1)

\* --------------------------------------------------------------- iter_rules

Directions == {"server_to_mac", "mac_to_server"}

Opposite(d) == IF d = "server_to_mac" THEN "mac_to_server" ELSE "server_to_mac"

TargetKeyAlwaysMac(d) == "mac"

source_key(d) == IF d = "server_to_mac" THEN "server" ELSE "mac"

target_key(d) == IF d = "server_to_mac" THEN "mac" ELSE "server"

\* rule.get(key, "")
Get(rule, key) == IF key \in DOMAIN rule THEN rule[key] ELSE <<>>

\* key=lambda item: len(item.get(source_key, ""))
SortKey(rule, d) == Len(Get(rule, source_key(d)))

\* An unstable descending sort: x goes in front of the items of equal key.
RECURSIVE InsertBeforeEqual(_, _, _)
InsertBeforeEqual(x, sorted, d) ==
    IF sorted = <<>> THEN <<x>>
    ELSE IF SortKey(Head(sorted), d) > SortKey(x, d)
         THEN <<Head(sorted)>> \o InsertBeforeEqual(x, Tail(sorted), d)
         ELSE <<x>> \o sorted

\* sorted(..., reverse=True) is stable: items with equal keys keep their
\* original order.  Insert x behind every item whose key is >= x's key.
RECURSIVE InsertDescending(_, _, _)
InsertDescending(x, sorted, d) ==
    IF sorted = <<>> THEN <<x>>
    ELSE IF SortKey(Head(sorted), d) >= SortKey(x, d)
         THEN <<Head(sorted)>> \o InsertDescending(x, Tail(sorted), d)
         ELSE <<x>> \o sorted

RECURSIVE SortFrom(_, _, _, _)
SortFrom(rs, d, i, acc) ==
    IF i > Len(rs) THEN acc
    ELSE SortFrom(rs, d, i + 1, InsertDescending(rs[i], acc, d))

UnsortedRules(rs, d) == rs

AscendingRules(rs, d) ==
    LET desc == SortFrom(rs, d, 1, <<>>)
    IN  [i \in 1..Len(desc) |-> desc[Len(desc) + 1 - i]]

sorted_rules(rs, d) == SortFrom(rs, d, 1, <<>>)

SkipOnlyEmptySource(source, target) == source = <<>>

\* if not source or not target or source == target: continue
Skipped(source, target) ==
    source = <<>> \/ target = <<>> \/ source = target

RECURSIVE YieldFrom(_, _, _)
YieldFrom(rs, d, i) ==
    IF i > Len(rs) THEN <<>>
    ELSE LET source == Get(rs[i], source_key(d))
             target == Get(rs[i], target_key(d))
         IN  IF Skipped(source, target)
             THEN YieldFrom(rs, d, i + 1)
             ELSE <<<<source, target>>>> \o YieldFrom(rs, d, i + 1)

\* list(iter_rules(rules, direction))
iter_rules(rs, d) == YieldFrom(sorted_rules(rs, d), d, 1)

\* ----------------------------------------------------------- apply_rewrites

RECURSIVE ApplyFrom(_, _, _)
ApplyFrom(t, pairs, i) ==
    IF i > Len(pairs) THEN t
    ELSE ApplyFrom(Replace(t, pairs[i][1], pairs[i][2]), pairs, i + 1)

apply_rewrites(t, rs, d) == ApplyFrom(t, iter_rules(rs, d), 1)

\* ----------------------------------------------------- inputs of the engine

Rule(s, m) == [server |-> s, mac |-> m]

Forms == StringsUpTo(Alphabet, MaxPatLen)

SmallRules == {Rule(s, m) : s \in Forms, m \in Forms}

SmallRuleLists == SeqsUpTo(SmallRules, MaxRules)

SmallTexts == StringsUpTo(Alphabet, MaxTextLen)

\* The rules and texts of tests/test_rewrites.py and of the spec's example.
FixServerVibe == <<"-", "v", "a", "r", "-", "t", "m", "p", "-", "v", "i", "b", "e">>
FixMacVibe == <<"-", "p", "r", "i", "v", "a", "t", "e", "-", "v", "a", "r", "-", "f", "o", "l", "d", "e", "r", "s", "-", "v", "i", "b", "e">>
FixServerTmp == <<"-", "v", "a", "r", "-", "t", "m", "p">>
FixMacTmp == <<"-", "p", "r", "i", "v", "a", "t", "e", "-", "v", "a", "r">>
FixTextVibeServer == <<"l", "i", "n", "k", ":", "-", "v", "a", "r", "-", "t", "m", "p", "-", "v", "i", "b", "e", "-", "k", "a", "n", "b", "a", "n">>
FixTextVibeMac == <<"l", "i", "n", "k", ":", "-", "p", "r", "i", "v", "a", "t", "e", "-", "v", "a", "r", "-", "f", "o", "l", "d", "e", "r", "s", "-", "v", "i", "b", "e", "-", "k", "a", "n", "b", "a", "n">>
FixTextTmpServer == <<"l", "i", "n", "k", ":", "-", "v", "a", "r", "-", "t", "m", "p">>
FixTextTmpMac == <<"l", "i", "n", "k", ":", "-", "p", "r", "i", "v", "a", "t", "e", "-", "v", "a", "r">>

FixRuleVibe == Rule(FixServerVibe, FixMacVibe)
FixRuleTmp == Rule(FixServerTmp, FixMacTmp)

FixRuleLists == {<<FixRuleVibe, FixRuleTmp>>, <<FixRuleTmp, FixRuleVibe>>}

FixTexts == {FixTextVibeServer, FixTextVibeMac, FixTextTmpServer, FixTextTmpMac}

\* Inputs of the round-trip runs: a wider alphabet, so that two rules with
\* no character in common can both match a text.
WideAlphabet == {"a", "b", "c", "d"}

CharsOf(s) == {s[i] : i \in 1..Len(s)}

RuleChars(r) == CharsOf(Get(r, "server")) \cup CharsOf(Get(r, "mac"))

\* The indices of the rules iter_rules does not skip (the same in both
\* directions: the test of line 132 is symmetric in source and target).
EffectiveIdx(rs) ==
    {i \in 1..Len(rs) :
        /\ Get(rs[i], "server") # <<>>
        /\ Get(rs[i], "mac") # <<>>
        /\ Get(rs[i], "server") # Get(rs[i], "mac")}

\* No cross-rule collision, in the strongest reading: two distinct effective
\* rules have no character in common, so no form of one can overlap, contain
\* or be produced by a form of the other.
NoCrossRuleCollisions(rs) ==
    \A i, j \in EffectiveIdx(rs) :
        i # j => RuleChars(rs[i]) \cap RuleChars(rs[j]) = {}

WideForms == StringsUpTo(WideAlphabet, MaxPatLen)

\* Rules iter_rules does not skip (the skipped ones are exercised over the
\* small alphabet).
WideRules ==
    {r \in {Rule(s, m) : s \in WideForms, m \in WideForms} : EffectiveIdx(<<r>>) = {1}}

WideRuleLists == {rs \in SeqsUpTo(WideRules, MaxRules) : NoCrossRuleCollisions(rs)}

WideTexts == StringsUpTo(WideAlphabet, MaxWideTextLen)

\* ------------------------------------------- the engine as a state machine

\* No pull_project / push_project call is running.
OpIdle ==
    [kind |-> "none", proj |-> 0, step |-> "none", confirm |-> FALSE,
     dry_run |-> FALSE, exc |-> "none", temp |-> 0]

\* A single run: no other invocation shares the machine.
ConIdle == invocations = <<>> /\ scratch = <<>>

\* main() is not running: the engine is driven directly, as the unit tests do.
RunIdle ==
    /\ config = [projects |-> <<>>]
    /\ args = [command |-> "none"]
    /\ pc = "off"
    /\ exit_code = -1
    /\ sa = [phase |-> "none", i |-> 0]
    /\ failures = <<>>
    /\ op = OpIdle
    /\ temp_dirs = {}
    /\ next_tmp = 1
    /\ local_dirs = {}
    /\ cmds = <<>>
    /\ prompts = <<>>
    /\ calls = <<>>
    /\ outcomes = <<>>
    /\ files = <<>>
    /\ widx = 0
    /\ count = 0
    /\ writes = {}
    /\ staged = <<>>

InitRewrite ==
    /\ RunIdle
    /\ ConIdle
    /\ \/ rules \in SmallRuleLists /\ text \in SmallTexts
       \/ rules \in FixRuleLists /\ text \in FixTexts
    /\ direction \in Directions
    /\ emitted = <<>>
    /\ idx = 0
    /\ updated = <<>>
    /\ back = <<>>
    /\ rpc = "start"

\* apply_rewrites: updated = text; the for loop asks iter_rules for its
\* first pair, which sorts and filters the rules.
apply_rewrites_enter ==
    /\ rpc = "start"
    /\ updated' = text
    /\ emitted' = iter_rules(rules, direction)
    /\ idx' = 1
    /\ rpc' = "loop"
    /\ UNCHANGED <<rules, direction, text, back>>
    /\ UNCHANGED <<runVars, conVars>>

\* An iteration that replaces in the input text, not in the running result.
apply_rewrites_iterate_on_input ==
    /\ rpc = "loop"
    /\ idx <= Len(emitted)
    /\ updated' = Replace(text, emitted[idx][1], emitted[idx][2])
    /\ idx' = idx + 1
    /\ UNCHANGED <<rules, direction, text, emitted, back, rpc>>
    /\ UNCHANGED <<runVars, conVars>>

\* one iteration: updated = updated.replace(source, target)
apply_rewrites_iterate ==
    /\ rpc = "loop"
    /\ idx <= Len(emitted)
    /\ updated' = Replace(updated, emitted[idx][1], emitted[idx][2])
    /\ idx' = idx + 1
    /\ UNCHANGED <<rules, direction, text, emitted, back, rpc>>
    /\ UNCHANGED <<runVars, conVars>>

\* return updated
apply_rewrites_return ==
    /\ rpc = "loop"
    /\ idx > Len(emitted)
    /\ rpc' = "done"
    /\ UNCHANGED <<rules, direction, text, emitted, idx, updated, back>>
    /\ UNCHANGED <<runVars, conVars>>

\* The returned text is rewritten in the opposite direction with the same
\* rules (the two direction tests of tests/test_rewrites.py).
reverse_pass ==
    /\ rpc = "done"
    /\ back' = apply_rewrites(updated, rules, Opposite(direction))
    /\ rpc' = "roundtrip"
    /\ UNCHANGED <<rules, direction, text, emitted, idx, updated>>
    /\ UNCHANGED <<runVars, conVars>>

NextRewrite ==
    \/ apply_rewrites_enter
    \/ apply_rewrites_iterate
    \/ apply_rewrites_return
    \/ reverse_pass

SpecRewrite == InitRewrite /\ [][NextRewrite]_vars

\* The same machine over collision-free rule lists of the wider alphabet.
InitRoundTrip ==
    /\ RunIdle
    /\ ConIdle
    /\ \/ rules \in WideRuleLists /\ text \in WideTexts
       \/ rules \in FixRuleLists /\ text \in FixTexts
    /\ direction \in Directions
    /\ emitted = <<>>
    /\ idx = 0
    /\ updated = <<>>
    /\ back = <<>>
    /\ rpc = "start"

SpecRoundTrip == InitRoundTrip /\ [][NextRewrite]_vars

\* ============================================================ main program

\* ------------------------------------------------------------ configuration

VALID_MODES == {"pull", "push", "both"}

NamePool == <<"p1", "p2", "p3", "p4", "p5">>

Name(i) == NamePool[i]

\* A project entry; "absent" stands for an entry without a "mode" key.
Project(n, m) ==
    IF m = "absent"
    THEN [name |-> n, server_dir |-> n, macos_dir |-> n]
    ELSE [name |-> n, server_dir |-> n, macos_dir |-> n, mode |-> m]

RawModes == VALID_MODES \cup {"absent", "mirror"}

\* Project lists with the i-th project named Name(i), in every mode.
RECURSIVE ProjectLists(_)
ProjectLists(n) ==
    IF n = 0 THEN {<<>>}
    ELSE LET shorter == ProjectLists(n - 1)
         IN  shorter \cup
             {Append(ps, Project(Name(n), m)) :
                 ps \in {q \in shorter : Len(q) = n - 1}, m \in RawModes}

\* A list naming two projects alike.
DuplicateLists == {<<Project(Name(1), "pull"), Project(Name(1), "both")>>}

OrchRuleLists == {<<>>, <<Rule(<<"a">>, <<"b">>)>>}

Paths == [macos_root |-> "~/.claude/projects", server_root |-> "/srv/projects"]

\* Rule lists with a rule one side of which is empty, or is missing.
OddRuleLists ==
    {<<Rule(<<>>, <<"b">>)>>, <<Rule(<<"a">>, <<>>)>>, <<[server |-> <<"a">>]>>}

Configs ==
    {[ssh_alias |-> "srv", paths |-> Paths, projects |-> ps, rewrite_rules |-> rs] :
        ps \in ProjectLists(MaxProjects) \cup DuplicateLists, rs \in OrchRuleLists}
    \cup {[ssh_alias |-> "srv", paths |-> Paths,
           projects |-> <<Project(Name(1), "both")>>, rewrite_rules |-> rs] :
              rs \in OddRuleLists}
    \cup {[paths |-> Paths, projects |-> <<Project(Name(1), "pull")>>]}

\* project.get("mode", "pull")
ModeOf(project) == IF "mode" \in DOMAIN project THEN project.mode ELSE "pull"

\* config.get("rewrite_rules", [])
RulesOf(c) == IF "rewrite_rules" \in DOMAIN c THEN c.rewrite_rules ELSE <<>>

\* A validation that does not look for duplicate project names.
ValidateWithoutSeenNames(c) ==
    /\ {"ssh_alias", "paths", "projects"} \subseteq DOMAIN c
    /\ {"macos_root", "server_root"} \subseteq DOMAIN c.paths
    /\ c.projects # <<>>
    /\ \A i \in 1..Len(c.projects) :
           /\ {"name", "server_dir", "macos_dir"} \subseteq DOMAIN c.projects[i]
           /\ ModeOf(c.projects[i]) \in VALID_MODES
    /\ \A i \in 1..Len(RulesOf(c)) :
           {"server", "mac"} \subseteq DOMAIN RulesOf(c)[i]

\* validate_config returns normally (TRUE) or raises SyncConfigError (FALSE)
validate_config(c) ==
    /\ {"ssh_alias", "paths", "projects"} \subseteq DOMAIN c
    /\ {"macos_root", "server_root"} \subseteq DOMAIN c.paths
    /\ c.projects # <<>>
    /\ \A i \in 1..Len(c.projects) :
           /\ {"name", "server_dir", "macos_dir"} \subseteq DOMAIN c.projects[i]
           /\ ModeOf(c.projects[i]) \in VALID_MODES
           /\ \A j \in 1..(i - 1) : c.projects[j].name # c.projects[i].name
    /\ \A i \in 1..Len(RulesOf(c)) :
           {"server", "mac"} \subseteq DOMAIN RulesOf(c)[i]

\* find_project: the index of the first project of that name, 0 when the
\* loop ends without one (SyncConfigError)
find_project(c, name) ==
    IF \E i \in 1..Len(c.projects) : c.projects[i].name = name
    THEN CHOOSE i \in 1..Len(c.projects) :
            /\ c.projects[i].name = name
            /\ \A j \in 1..(i - 1) : c.projects[j].name # name
    ELSE 0

\* ------------------------------------------------------------ command line

ArgNames == {Name(i) : i \in 1..MaxProjects} \cup {"nope"}

Args(c, p, y, d, ip) ==
    [command |-> c, project |-> p, yes |-> y, dry_run |-> d, include_push |-> ip]

ArgSets ==
    {Args("list", "-", FALSE, d, FALSE) : d \in BOOLEAN}
    \cup {Args("pull", p, FALSE, d, FALSE) : p \in ArgNames, d \in BOOLEAN}
    \cup {Args("push", p, y, d, FALSE) : p \in ArgNames, y \in BOOLEAN, d \in BOOLEAN}
    \cup {Args("sync-all", "-", FALSE, d, ip) : d \in BOOLEAN, ip \in BOOLEAN}

\* ------------------------------------------------------------- environment

\* A *.jsonl file of a staged tree: UTF-8 text, or bytes read_text cannot decode.
FileKinds ==
    {[decodable |-> TRUE, content |-> <<"a">>],
     [decodable |-> TRUE, content |-> <<"b">>],
     [decodable |-> FALSE, content |-> <<>>]}

FileLists == SeqsUpTo(FileKinds, MaxFiles)

\* What the user may type at the prompt.
Responses ==
    {<<"y">>, <<" ", "Y", "e", "s", " ">>, <<"Y", "E", "S">>, <<"n">>, <<>>,
     <<"y", "e", "a", "h">>}

\* str.strip() for the blank character
RECURSIVE LStrip(_)
LStrip(s) == IF s # <<>> /\ Head(s) = " " THEN LStrip(Tail(s)) ELSE s

RECURSIVE RStrip(_)
RStrip(s) ==
    IF s # <<>> /\ s[Len(s)] = " " THEN RStrip(SubSeq(s, 1, Len(s) - 1)) ELSE s

Strip(s) == RStrip(LStrip(s))

\* str.lower() for the letters the answers use
LowerChar(c) ==
    CASE c = "Y" -> "y"
      [] c = "E" -> "e"
      [] c = "S" -> "s"
      [] c = "N" -> "n"
      [] OTHER -> c

Lower(s) == [i \in 1..Len(s) |-> LowerChar(s[i])]

AnyAnswer(response) == TRUE

\* not (response.lower() not in {"y", "yes"}), response = input(...).strip()
Affirmative(response) == Lower(Strip(response)) \in {<<"y">>, <<"y", "e", "s">>}

AlwaysAllowed(mode) == TRUE

\* not (mode not in {"pull", "both"})
pull_allowed(mode) == mode \in {"pull", "both"}

\* not (mode not in {"push", "both"})
push_allowed(mode) == mode \in {"push", "both"}

NeverPrompt(confirm, dry) == FALSE

\* if confirm and not dry_run
needs_prompt(confirm, dry) == confirm /\ ~dry

\* ---------------------------------------------------------------- commands

NoDryFlag(argv, dry) == argv

\* if dry_run: cmd.insert(1, "--dry-run")
DryFlag(argv, dry) == IF dry THEN <<argv[1], "--dry-run">> \o Tail(argv) ELSE argv

\* pull_cmd of pull_project / stage_cmd of push_project: the options, and
\* the source and destination arguments
stage_cmd(kind, name, temp, dry) ==
    IF kind = "pull"
    THEN [argv |-> DryFlag(<<"rsync", "-az", "--delete">>, dry),
          src |-> <<"remote", name>>, dst |-> <<"temp", temp>>]
    ELSE [argv |-> DryFlag(<<"rsync", "-a", "--delete">>, dry),
          src |-> <<"local", name>>, dst |-> <<"temp", temp>>]

\* push_cmd of pull_project / push_cmd of push_project
final_cmd(kind, name, temp, dry) ==
    IF kind = "pull"
    THEN [argv |-> DryFlag(<<"rsync", "-a", "--delete">>, dry),
          src |-> <<"temp", temp>>, dst |-> <<"local", name>>]
    ELSE [argv |-> DryFlag(<<"rsync", "-az", "--delete">>, dry),
          src |-> <<"temp", temp>>, dst |-> <<"remote", name>>]

\* run_cmd: the command is run; a non-zero exit status raises RuntimeError
Ran(phase, cmd, ok) ==
    cmds' = Append(cmds, [by |-> op.kind, phase |-> phase,
                          name |-> config.projects[op.proj].name,
                          argv |-> cmd.argv, src |-> cmd.src, dst |-> cmd.dst,
                          ok |-> ok])

\* The call of pull_project / push_project ends.
Ended(result) ==
    outcomes' = Append(outcomes, [kind |-> op.kind,
                                  name |-> config.projects[op.proj].name,
                                  result |-> result])

Call(kind, proj, confirm, dry) ==
    [kind |-> kind, proj |-> proj, step |-> "validate", confirm |-> confirm,
     dry_run |-> dry, exc |-> "none", temp |-> 0]

Called(kind, proj) ==
    calls' = Append(calls, [kind |-> kind, name |-> config.projects[proj].name])

WalkReset ==
    files' = <<>> /\ widx' = 0 /\ count' = 0 /\ writes' = {} /\ staged' = <<>>

\* The direction rewrite_jsonl_files is called with.
WalkDirection(kind) == IF kind = "pull" THEN "server_to_mac" ELSE "mac_to_server"

ProjectOf(o) == config.projects[o.proj]

\* --------------------------------------------------------------- the engine
\* is not driven directly while main() runs.
EngineIdle ==
    /\ rules = <<>>
    /\ direction = "server_to_mac"
    /\ text = <<>>
    /\ emitted = <<>>
    /\ idx = 0
    /\ updated = <<>>
    /\ back = <<>>
    /\ rpc = "off"

Init ==
    /\ EngineIdle
    /\ ConIdle
    /\ config \in Configs
    /\ args \in ArgSets
    /\ pc = "load"
    /\ exit_code = -1
    /\ sa = [phase |-> "none", i |-> 0]
    /\ failures = <<>>
    /\ op = OpIdle
    /\ temp_dirs = {}
    /\ next_tmp = 1
    /\ local_dirs \in {{}, {Name(i) : i \in 1..MaxProjects}}
    /\ cmds = <<>>
    /\ prompts = <<>>
    /\ calls = <<>>
    /\ outcomes = <<>>
    /\ files = <<>>
    /\ widx = 0
    /\ count = 0
    /\ writes = {}
    /\ staged = <<>>

\* ------------------------------------------------------------- pull_project

\* lines 186-196: the mode check; then the local directory and the staging
\* directory are created.
pull_project_validate ==
    /\ op.kind = "pull" /\ op.step = "validate"
    /\ IF ~pull_allowed(ModeOf(ProjectOf(op)))
       THEN /\ op' = [op EXCEPT !.step = "raised", !.exc = "SyncConfigError"]
            /\ Ended("SyncConfigError")
            /\ UNCHANGED fsVars
       ELSE /\ local_dirs' = local_dirs \cup {ProjectOf(op).name}
            /\ temp_dirs' = temp_dirs \cup {next_tmp}
            /\ next_tmp' = next_tmp + 1
            /\ op' = [op EXCEPT !.step = "stage", !.temp = next_tmp]
            /\ UNCHANGED outcomes
    /\ WalkReset
    /\ UNCHANGED <<rwVars, conVars, cfgVars, pc, exit_code, sa, failures, cmds, prompts, calls>>

\* A staging transfer whose exit status is not looked at.
StageTransferUnchecked(kind) ==
    /\ op.kind = kind /\ op.step = "stage"
    /\ \E ok \in BOOLEAN :
        /\ Ran("stage", stage_cmd(kind, ProjectOf(op).name, op.temp, op.dry_run), ok)
        /\ \E fl \in (IF op.dry_run THEN {<<>>} ELSE FileLists) : files' = fl
        /\ staged' = files'
        /\ op' = [op EXCEPT !.step = "rewrite"]
    /\ UNCHANGED <<rwVars, conVars, cfgVars, pc, exit_code, sa, failures, fsVars, prompts,
                   calls, outcomes, widx, count, writes>>

\* The staging transfer: run_cmd(pull_cmd) / run_cmd(stage_cmd).  With
\* --dry-run rsync copies nothing.
StageTransfer(kind) ==
    /\ op.kind = kind /\ op.step = "stage"
    /\ \E ok \in BOOLEAN :
        /\ Ran("stage", stage_cmd(kind, ProjectOf(op).name, op.temp, op.dry_run), ok)
        /\ IF ok
           THEN /\ \E fl \in (IF op.dry_run THEN {<<>>} ELSE FileLists) : files' = fl
                /\ staged' = files'
                /\ op' = [op EXCEPT !.step = "rewrite"]
           ELSE /\ UNCHANGED <<files, staged>>
                /\ op' = [op EXCEPT !.step = "finally", !.exc = "RuntimeError"]
    /\ UNCHANGED <<rwVars, conVars, cfgVars, pc, exit_code, sa, failures, fsVars, prompts,
                   calls, outcomes, widx, count, writes>>

\* lines 198-204
pull_project_stage == StageTransfer("pull")

\* The finalizing transfer: run_cmd(push_cmd).
FinalTransfer(kind) ==
    /\ op.kind = kind /\ op.step = "final"
    /\ \E ok \in BOOLEAN :
        /\ Ran("final", final_cmd(kind, ProjectOf(op).name, op.temp, op.dry_run), ok)
        /\ op' = [op EXCEPT !.step = "finally",
                            !.exc = IF ok THEN "none" ELSE "RuntimeError"]
    /\ UNCHANGED <<rwVars, conVars, cfgVars, pc, exit_code, sa, failures, fsVars, prompts,
                   calls, outcomes, walkVars>>

\* lines 211-217
pull_project_final == FinalTransfer("pull")

KeepStaging(o) == temp_dirs

\* shutil.rmtree(temp_dir, ignore_errors=True)
rmtree(o) == temp_dirs \ {o.temp}

\* A cleanup that is the last statement of the try block, not a finally.
CleanupOnSuccessOnly(kind) ==
    /\ op.kind = kind /\ op.step = "finally"
    /\ temp_dirs' = IF op.exc = "none" THEN rmtree(op) ELSE temp_dirs
    /\ op' = [op EXCEPT !.step = IF op.exc = "none" THEN "returned" ELSE "raised"]
    /\ Ended(IF op.exc = "none" THEN "ok" ELSE op.exc)
    /\ UNCHANGED <<rwVars, conVars, cfgVars, pc, exit_code, sa, failures, next_tmp,
                   local_dirs, cmds, prompts, calls, walkVars>>

\* finally: the staging directory is removed, then the call returns or the
\* exception goes on to the caller.
Finally(kind) ==
    /\ op.kind = kind /\ op.step = "finally"
    /\ temp_dirs' = rmtree(op)
    /\ op' = [op EXCEPT !.step = IF op.exc = "none" THEN "returned" ELSE "raised"]
    /\ Ended(IF op.exc = "none" THEN "ok" ELSE op.exc)
    /\ UNCHANGED <<rwVars, conVars, cfgVars, pc, exit_code, sa, failures, next_tmp, local_dirs,
                   cmds, prompts, calls, walkVars>>

\* lines 218-219
pull_project_finally == Finally("pull")

\* ------------------------------------------------------------- push_project

\* A push that asks instead of refusing when the mode does not allow it.
push_project_validate_ask ==
    /\ op.kind = "push" /\ op.step = "validate"
    /\ op' = [op EXCEPT !.step = IF ~push_allowed(ModeOf(ProjectOf(op)))
                                     \/ needs_prompt(op.confirm, op.dry_run)
                                  THEN "prompt" ELSE "check_local"]
    /\ WalkReset
    /\ UNCHANGED <<rwVars, conVars, cfgVars, pc, exit_code, sa, failures, fsVars, cmds,
                   prompts, calls, outcomes>>

\* lines 230-236: the mode check, then whether to ask
push_project_validate ==
    /\ op.kind = "push" /\ op.step = "validate"
    /\ IF ~push_allowed(ModeOf(ProjectOf(op)))
       THEN /\ op' = [op EXCEPT !.step = "raised", !.exc = "SyncConfigError"]
            /\ Ended("SyncConfigError")
       ELSE /\ op' = [op EXCEPT !.step = IF needs_prompt(op.confirm, op.dry_run)
                                         THEN "prompt" ELSE "check_local"]
            /\ UNCHANGED outcomes
    /\ WalkReset
    /\ UNCHANGED <<rwVars, conVars, cfgVars, pc, exit_code, sa, failures, fsVars, cmds,
                   prompts, calls>>

\* lines 237-242: input() gives an answer, or raises EOFError at end of input
push_project_confirm ==
    /\ op.kind = "push" /\ op.step = "prompt"
    /\ \/ \E r \in Responses :
            /\ prompts' = Append(prompts, [name |-> ProjectOf(op).name,
                                           response |-> r, eof |-> FALSE])
            /\ IF Affirmative(r)
               THEN /\ op' = [op EXCEPT !.step = "check_local"]
                    /\ UNCHANGED outcomes
               ELSE \* print("Cancelled."); return
                    /\ op' = [op EXCEPT !.step = "returned"]
                    /\ Ended("cancelled")
       \/ /\ prompts' = Append(prompts, [name |-> ProjectOf(op).name,
                                         response |-> <<>>, eof |-> TRUE])
          /\ op' = [op EXCEPT !.step = "raised", !.exc = "EOFError"]
          /\ Ended("EOFError")
    /\ UNCHANGED <<rwVars, conVars, cfgVars, pc, exit_code, sa, failures, fsVars, cmds,
                   calls, walkVars>>

\* lines 244-251: the local directory must exist; the staging directory is
\* created
push_project_check_local ==
    /\ op.kind = "push" /\ op.step = "check_local"
    /\ IF ProjectOf(op).name \notin local_dirs
       THEN /\ op' = [op EXCEPT !.step = "raised", !.exc = "SyncConfigError"]
            /\ Ended("SyncConfigError")
            /\ UNCHANGED fsVars
       ELSE /\ temp_dirs' = temp_dirs \cup {next_tmp}
            /\ next_tmp' = next_tmp + 1
            /\ op' = [op EXCEPT !.step = "stage", !.temp = next_tmp]
            /\ UNCHANGED <<local_dirs, outcomes>>
    /\ UNCHANGED <<rwVars, conVars, cfgVars, pc, exit_code, sa, failures, cmds, prompts,
                   calls, walkVars>>

\* lines 253-259
push_project_stage == StageTransfer("push")

\* lines 266-272
push_project_final == FinalTransfer("push")

\* lines 273-274
push_project_finally == Finally("push")

\* ------------------------------------------------------ rewrite_jsonl_files

\* lines 149-152: no rules, nothing to do: return 0
rewrite_jsonl_files_enter ==
    /\ op.step = "rewrite" /\ widx = 0
    /\ count' = 0
    /\ writes' = {}
    /\ IF RulesOf(config) = <<>>
       THEN /\ op' = [op EXCEPT !.step = "final"]
            /\ widx' = 0
       ELSE /\ op' = op
            /\ widx' = 1
    /\ UNCHANGED <<rwVars, conVars, cfgVars, pc, exit_code, sa, failures, fsVars, logVars, files,
                   staged>>

CountEveryFile(decoded) == 1

\* what one *.jsonl file adds to `count`: the `continue` of line 158 skips
\* line 163
Counted(decoded) == IF decoded THEN 1 ELSE 0

WriteAlways(original, transformed) == TRUE

\* if transformed != original
MustWrite(original, transformed) == transformed # original

\* A walk that lets the UnicodeDecodeError leave it.
DecodeErrorRaised(o) == [o EXCEPT !.step = "finally", !.exc = "UnicodeDecodeError"]

\* except UnicodeDecodeError: print(...); continue
DecodeErrorSkipped(o) == o

\* lines 153-163: one file of root.rglob("*.jsonl")
rewrite_jsonl_files_visit ==
    /\ op.step = "rewrite" /\ widx >= 1 /\ widx <= Len(files)
    /\ LET f == files[widx]
           original == f.content
           transformed == apply_rewrites(original, RulesOf(config), WalkDirection(op.kind))
       IN  IF ~f.decodable
           THEN \* UnicodeDecodeError: warn and continue
                /\ op' = DecodeErrorSkipped(op)
                /\ count' = count + Counted(FALSE)
                /\ widx' = widx + 1
                /\ UNCHANGED <<files, writes>>
           ELSE IF MustWrite(original, transformed)
                THEN \/ /\ files' = [files EXCEPT ![widx].content = transformed]
                        /\ writes' = writes \cup {widx}
                        /\ count' = count + Counted(TRUE)
                        /\ widx' = widx + 1
                        /\ op' = op
                     \/ \* write_text fails: the OSError leaves the walk
                        /\ op' = [op EXCEPT !.step = "finally", !.exc = "OSError"]
                        /\ UNCHANGED walkVars
                ELSE /\ count' = count + Counted(TRUE)
                     /\ widx' = widx + 1
                     /\ UNCHANGED <<files, writes, op>>
    /\ UNCHANGED <<rwVars, conVars, cfgVars, pc, exit_code, sa, failures, fsVars, logVars, staged>>

\* line 165: return count
rewrite_jsonl_files_return ==
    /\ op.step = "rewrite" /\ widx > Len(files)
    /\ op' = [op EXCEPT !.step = "final"]
    /\ UNCHANGED <<rwVars, conVars, cfgVars, pc, exit_code, sa, failures, fsVars, logVars, walkVars>>

\* ----------------------------------------------------------------- sync_all

\* The next project at or after position i whose mode is in `modes`, 0 if none.
NextEligible(i, modes) ==
    LET js == {j \in i..Len(config.projects) : ModeOf(config.projects[j]) \in modes}
    IN  IF js = {} THEN 0 ELSE CHOOSE j \in js : \A k \in js : j <= k

PullEligible == {"pull", "both"}

PushOrBoth == {"push", "both"}

PushEligible == {"both"}

\* lines 292-296: the pull loop goes on to its next eligible project and
\* calls pull_project; after the last one the push loop or the report follows
sync_all_pull_next ==
    /\ pc = "sync_all" /\ sa.phase = "pull" /\ op.kind = "none"
    /\ LET j == NextEligible(sa.i + 1, PullEligible)
       IN  IF j # 0
           THEN /\ op' = Call("pull", j, FALSE, args.dry_run)
                /\ Called("pull", j)
                /\ sa' = [sa EXCEPT !.i = j]
           ELSE /\ sa' = [phase |-> IF args.include_push THEN "push" ELSE "report",
                          i |-> 0]
                /\ UNCHANGED <<op, calls>>
    /\ UNCHANGED <<rwVars, conVars, cfgVars, pc, exit_code, failures, fsVars, cmds, prompts,
                   outcomes, walkVars>>

\* lines 300-305: the push loop, with confirm=False
sync_all_push_next ==
    /\ pc = "sync_all" /\ sa.phase = "push" /\ op.kind = "none"
    /\ LET j == NextEligible(sa.i + 1, PushEligible)
       IN  IF j # 0
           THEN /\ op' = Call("push", j, FALSE, args.dry_run)
                /\ Called("push", j)
                /\ sa' = [sa EXCEPT !.i = j]
           ELSE /\ sa' = [phase |-> "report", i |-> 0]
                /\ UNCHANGED <<op, calls>>
    /\ UNCHANGED <<rwVars, conVars, cfgVars, pc, exit_code, failures, fsVars, cmds, prompts,
                   outcomes, walkVars>>

DropFailure(fs, o) == fs

\* except Exception as exc: failures.append((project["name"], exc))
Collected(fs, o) ==
    IF o.step = "raised" THEN Append(fs, <<ProjectOf(o).name, o.exc>>) ELSE fs

\* A batch that gives up at the first failure.
sync_all_collect_abort ==
    /\ pc = "sync_all" /\ op.step \in {"returned", "raised"}
    /\ failures' = Collected(failures, op)
    /\ op' = OpIdle
    /\ sa' = IF op.step = "raised" THEN [phase |-> "report", i |-> 0] ELSE sa
    /\ UNCHANGED <<rwVars, conVars, cfgVars, pc, exit_code, fsVars, logVars, walkVars>>

\* lines 295-298 and 304-307: the call came back, normally or with an exception
sync_all_collect ==
    /\ pc = "sync_all" /\ op.step \in {"returned", "raised"}
    /\ failures' = Collected(failures, op)
    /\ op' = OpIdle
    /\ UNCHANGED <<rwVars, conVars, cfgVars, pc, exit_code, sa, fsVars, logVars, walkVars>>

\* lines 309-313, and main's lines 400-404: with failures sync_all raises
\* RuntimeError, which main turns into exit status 3
sync_all_report ==
    /\ pc = "sync_all" /\ sa.phase = "report"
    /\ sa' = [sa EXCEPT !.phase = IF failures # <<>> THEN "raised" ELSE "returned"]
    /\ exit_code' = IF failures # <<>> THEN 3 ELSE 0
    /\ pc' = "exit"
    /\ UNCHANGED <<rwVars, conVars, cfgVars, failures, op, fsVars, logVars, walkVars>>

\* --------------------------------------------------------------------- main

\* lines 369-373: load_config validates; SyncConfigError ends main with 1
main_load_config ==
    /\ pc = "load"
    /\ IF validate_config(config)
       THEN pc' = "dispatch" /\ UNCHANGED exit_code
       ELSE pc' = "exit" /\ exit_code' = 1
    /\ UNCHANGED <<rwVars, conVars, cfgVars, sa, failures, op, fsVars, logVars, walkVars>>

\* lines 375-396: the command is dispatched
main_dispatch ==
    /\ pc = "dispatch"
    /\ CASE args.command = "list" ->
              /\ pc' = "exit" /\ exit_code' = 0
              /\ UNCHANGED <<sa, op, calls>>
         [] args.command \in {"pull", "push"} ->
              LET j == find_project(config, args.project)
              IN  IF j = 0
                  THEN \* SyncConfigError from find_project
                       /\ pc' = "exit" /\ exit_code' = 2
                       /\ UNCHANGED <<sa, op, calls>>
                  ELSE /\ pc' = "call"
                       /\ op' = Call(args.command, j,
                                     IF args.command = "push"
                                     THEN ~(args.yes \/ args.dry_run) ELSE FALSE,
                                     args.dry_run)
                       /\ Called(args.command, j)
                       /\ UNCHANGED <<sa, exit_code>>
         [] args.command = "sync-all" ->
              /\ pc' = "sync_all"
              /\ sa' = [phase |-> "pull", i |-> 0]
              /\ UNCHANGED <<op, calls, exit_code>>
    /\ UNCHANGED <<rwVars, conVars, cfgVars, failures, fsVars, cmds, prompts, outcomes, walkVars>>

\* The exit status of main for an exception that leaves the try block;
\* an exception main does not catch ends the interpreter with status 1.
ExitStatus(exc) ==
    CASE exc = "none" -> 0
      [] exc = "SyncConfigError" -> 2
      [] exc = "RuntimeError" -> 3
      [] OTHER -> 1

\* lines 397-404: pull_project / push_project came back to main
main_return ==
    /\ pc = "call" /\ op.step \in {"returned", "raised"}
    /\ exit_code' = ExitStatus(op.exc)
    /\ pc' = "exit"
    /\ UNCHANGED <<rwVars, conVars, cfgVars, sa, failures, op, fsVars, logVars, walkVars>>

Next ==
    \/ main_load_config
    \/ main_dispatch
    \/ main_return
    \/ sync_all_pull_next
    \/ sync_all_push_next
    \/ sync_all_collect
    \/ sync_all_report
    \/ pull_project_validate
    \/ pull_project_stage
    \/ pull_project_final
    \/ pull_project_finally
    \/ push_project_validate
    \/ push_project_confirm
    \/ push_project_check_local
    \/ push_project_stage
    \/ push_project_final
    \/ push_project_finally
    \/ rewrite_jsonl_files_enter
    \/ rewrite_jsonl_files_visit
    \/ rewrite_jsonl_files_return

Spec == Init /\ [][Next]_vars

\* ===================================================== concurrent invocations
\* Several runs of `pull <project>` / `push <project>` started by hand at the
\* same time.  Each is past its validation; their steps interleave.  They
\* share the system temporary directory.

\* The random part of a mkdtemp name; there are at least as many as runs.
Suffixes == 1..MaxInvocations

\* prefix=f"claude-sync-{project['name']}-pull-" / "-push-", and the suffix
StagingPath(name, kind, suffix) == [name |-> name, kind |-> kind, suffix |-> suffix]

StagingPaths ==
    {StagingPath(n, k, x) : n \in {Name(1), Name(2)}, k \in {"pull", "push"},
                            x \in Suffixes}

NoPath == StagingPath("-", "-", 0)

\* One fixed directory per project and direction, made with exist_ok.
FixedTempDir(name, kind) == {StagingPath(name, kind, 1)}

\* tempfile.mkdtemp(prefix=...): a directory of that prefix that did not
\* exist is created; a candidate name that exists is passed over.
mkdtemp(name, kind) ==
    {p \in StagingPaths : p.name = name /\ p.kind = kind /\ ~scratch[p].exists}

Holding == {"stage", "rewrite", "final", "finally"}

InitConcurrent ==
    /\ EngineIdle
    /\ RunIdle
    /\ invocations \in
          [1..MaxInvocations ->
              {[kind |-> k, name |-> n, step |-> "mkdtemp", temp |-> NoPath,
                exc |-> "none", read |-> {}, sent |-> {}] :
                  k \in {"pull", "push"}, n \in {Name(1), Name(2)}}]
    /\ scratch = [p \in StagingPaths |-> [exists |-> FALSE, holds |-> {}]]

\* lines 196 / 251: temp_dir = Path(tempfile.mkdtemp(prefix=...))
invocation_mkdtemp(i) ==
    /\ invocations[i].step = "mkdtemp"
    /\ \E p \in mkdtemp(invocations[i].name, invocations[i].kind) :
        /\ scratch' = [scratch EXCEPT ![p] =
                          [exists |-> TRUE,
                           holds |-> IF scratch[p].exists THEN scratch[p].holds ELSE {}]]
        /\ invocations' = [invocations EXCEPT ![i].step = "stage", ![i].temp = p]
    /\ UNCHANGED <<rwVars, runVars>>

\* lines 198-204 / 253-259: rsync --delete into the staging directory makes
\* it a copy of the source; a failed transfer may have copied a part.
invocation_stage(i) ==
    /\ invocations[i].step = "stage"
    /\ LET t == invocations[i].temp
       IN  \E ok \in BOOLEAN :
            IF ok
            THEN /\ scratch' = [scratch EXCEPT ![t] = [exists |-> TRUE, holds |-> {i}]]
                 /\ invocations' = [invocations EXCEPT ![i].step = "rewrite"]
            ELSE /\ scratch' = [scratch EXCEPT ![t].holds =
                                   IF scratch[t].exists THEN @ \cup {i} ELSE @]
                 /\ invocations' = [invocations EXCEPT ![i].step = "finally",
                                                       ![i].exc = "RuntimeError"]
    /\ UNCHANGED <<rwVars, runVars>>

\* lines 206-209 / 261-264: rewrite_jsonl_files reads and rewrites whatever
\* the staging directory holds; write_text may fail.
invocation_rewrite(i) ==
    /\ invocations[i].step = "rewrite"
    /\ LET t == invocations[i].temp
       IN  \/ invocations' = [invocations EXCEPT ![i].step = "final",
                                                 ![i].read = scratch[t].holds]
           \/ invocations' = [invocations EXCEPT ![i].step = "finally",
                                                 ![i].exc = "OSError",
                                                 ![i].read = scratch[t].holds]
    /\ UNCHANGED <<rwVars, runVars, scratch>>

\* lines 211-215 / 266-270: rsync from the staging directory to the
\* destination sends what the directory holds; without the directory it fails.
invocation_final(i) ==
    /\ invocations[i].step = "final"
    /\ LET t == invocations[i].temp
       IN  \E ok \in BOOLEAN :
            /\ ok => scratch[t].exists
            /\ invocations' = [invocations EXCEPT
                                  ![i].step = "finally",
                                  ![i].exc = IF ok THEN "none" ELSE "RuntimeError",
                                  ![i].sent = scratch[t].holds]
    /\ UNCHANGED <<rwVars, runVars, scratch>>

\* lines 218-219 / 273-274: shutil.rmtree(temp_dir, ignore_errors=True)
invocation_finally(i) ==
    /\ invocations[i].step = "finally"
    /\ scratch' = [scratch EXCEPT ![invocations[i].temp] =
                      [exists |-> FALSE, holds |-> {}]]
    /\ invocations' = [invocations EXCEPT ![i].step = "done"]
    /\ UNCHANGED <<rwVars, runVars>>

NextConcurrent ==
    \E i \in 1..MaxInvocations :
        \/ invocation_mkdtemp(i)
        \/ invocation_stage(i)
        \/ invocation_rewrite(i)
        \/ invocation_final(i)
        \/ invocation_finally(i)

SpecConcurrent == InitConcurrent /\ [][NextConcurrent]_vars

\* ------------------------------------------------------------------ C1

\* C1: in either direction and for every configuration order, the pairs
\* iter_rules yields have non-increasing pattern length, and a pair whose
\* pattern is a proper substring of another pair's pattern comes after it.
C1_LongestFirst ==
    rpc # "start" =>
        /\ \A i, j \in 1..Len(emitted) :
               i < j => Len(emitted[i][1]) >= Len(emitted[j][1])
        /\ \A i, j \in 1..Len(emitted) :
               ( /\ emitted[i][1] # emitted[j][1]
                 /\ IsSubstring(emitted[i][1], emitted[j][1]) ) => j < i

\* Both rules were applied, the configuration listed the broad one first.
C1_Witness ==
    /\ rpc = "done"
    /\ Len(rules) = 2
    /\ Len(emitted) = 2
    /\ idx = 3
    /\ emitted[1][1] = Get(rules[2], source_key(direction))
    /\ emitted[2][1] = Get(rules[1], source_key(direction))
    /\ emitted[2][1] # emitted[1][1]
    /\ IsSubstring(emitted[2][1], emitted[1][1])

\* ------------------------------------------------------------------ C2

\* C2: the more specific rule has precedence.  When one effective rule's
\* pattern is strictly longer than every other's, the first replacement
\* pass is that rule's, over the untouched input; with exactly two effective
\* rules A, B where A's pattern is a substring of B's, the result is B's
\* replace-all followed by A's, whatever the configuration order; and the
\* spec's example comes out as stated.
C2_SpecificFirst ==
    LET eff == EffectiveIdx(rules)
        src(i) == Get(rules[i], source_key(direction))
        tgt(i) == Get(rules[i], target_key(direction))
    IN  /\ (rpc = "loop" /\ idx = 2) =>
              \A b \in eff :
                  (\A a \in eff \ {b} : Len(src(a)) < Len(src(b)))
                      => updated = Replace(text, src(b), tgt(b))
        /\ rpc = "done" =>
              \A a, b \in eff :
                  ( /\ eff = {a, b}
                    /\ a # b
                    /\ Len(src(a)) < Len(src(b))
                    /\ IsSubstring(src(a), src(b)) )
                      => updated = Replace(Replace(text, src(b), tgt(b)),
                                           src(a), tgt(a))
        /\ (rpc = "done" /\ rules \in FixRuleLists /\ direction = "server_to_mac") =>
              /\ text = FixTextVibeServer => updated = FixTextVibeMac
              /\ text = FixTextTmpServer => updated = FixTextTmpMac

\* The spec's example, the broad rule configured first.
C2_Witness ==
    /\ rpc = "done"
    /\ rules = <<FixRuleTmp, FixRuleVibe>>
    /\ direction = "server_to_mac"
    /\ text = FixTextVibeServer
    /\ updated = FixTextVibeMac

\* ------------------------------------------------------------------ C4

InsertAt(rs, k, r) == SubSeq(rs, 1, k) \o <<r>> \o SubSeq(rs, k + 1, Len(rs))

NoOpRules == {r \in SmallRules : r.server = <<>> \/ r.mac = <<>> \/ r.server = r.mac}

\* C4: a rule with an empty side or with equal sides is never yielded by
\* iter_rules, and adding one at any position of the rule list leaves the
\* result of apply_rewrites unchanged.
C4_NoOpFiltered ==
    /\ rpc # "start" =>
           \A i \in 1..Len(emitted) :
               /\ emitted[i][1] # <<>>
               /\ emitted[i][2] # <<>>
               /\ emitted[i][1] # emitted[i][2]
    /\ rpc = "done" =>
           \A r \in NoOpRules : \A k \in 0..Len(rules) :
               apply_rewrites(text, InsertAt(rules, k, r), direction) = updated

\* A configured rule with an empty replacement whose pattern occurs in the
\* text, beside a rule that did rewrite the text.
C4_Witness ==
    /\ rpc = "done"
    /\ updated # text
    /\ \E i \in 1..Len(rules) :
           /\ Get(rules[i], target_key(direction)) = <<>>
           /\ Get(rules[i], source_key(direction)) # <<>>
           /\ IsSubstring(Get(rules[i], source_key(direction)), text)
           /\ IsSubstring(Get(rules[i], source_key(direction)), updated)

\* ------------------------------------------------------------------ C3

TargetChars(rs, d) ==
    UNION {CharsOf(Get(rs[i], target_key(d))) : i \in EffectiveIdx(rs)}

\* C3 as stated: for every rule set with no cross-rule collisions and every
\* text, the forward pass followed by the reverse pass gives the text back.
C3_RoundTripEveryText ==
    (rpc = "roundtrip" /\ NoCrossRuleCollisions(rules)) => back = text

\* C3 as amended: the round trip gives the text back when, besides, the text
\* holds no character of a replacement the forward pass can insert; and it
\* does so for the rules and texts of the repository's tests.
C3_RoundTripSourceSideText ==
    /\ ( /\ rpc = "roundtrip"
         /\ NoCrossRuleCollisions(rules)
         /\ CharsOf(text) \cap TargetChars(rules, direction) = {} )
           => back = text
    /\ ( /\ rpc = "roundtrip"
         /\ rules \in FixRuleLists
         /\ \/ direction = "server_to_mac" /\ text \in {FixTextVibeServer, FixTextTmpServer}
            \/ direction = "mac_to_server" /\ text \in {FixTextVibeMac, FixTextTmpMac} )
           => back = text

\* Two rules of disjoint characters both rewrote the text, and the reverse
\* pass restored it.
C3_Witness ==
    /\ rpc = "roundtrip"
    /\ Len(emitted) = 2
    /\ NoCrossRuleCollisions(rules)
    /\ CharsOf(text) \cap TargetChars(rules, direction) = {}
    /\ IsSubstring(emitted[1][1], text)
    /\ IsSubstring(emitted[2][1], text)
    /\ updated # text
    /\ back = text

\* ------------------------------------------------------------------ C5

\* The running call asks for a direction its project's mode does not allow.
NotAllowed(o) ==
    \/ o.kind = "push" /\ ModeOf(ProjectOf(o)) = "pull"
    \/ o.kind = "pull" /\ ModeOf(ProjectOf(o)) = "push"

\* C5: push_project on a project whose mode is pull (or absent) and
\* pull_project on a project whose mode is push fail in validation with
\* SyncConfigError: no step of such a call issues a transfer command, prompts,
\* creates a staging directory or creates the local directory, and the call
\* never gets past validation.
C5_NotAllowedNoEffect ==
    [][ (op'.kind # "none" /\ NotAllowed(op')) =>
            /\ op'.step \in {"validate", "raised"}
            /\ op'.step = "raised" => op'.exc = "SyncConfigError"
            /\ cmds' = cmds
            /\ prompts' = prompts
            /\ temp_dirs' = temp_dirs
            /\ next_tmp' = next_tmp
            /\ local_dirs' = local_dirs ]_vars

\* `push p1` without --yes on a project that has no mode key ended with
\* status 2, its local directory still missing.
C5_Witness ==
    /\ pc = "exit"
    /\ exit_code = 2
    /\ op.kind = "push"
    /\ op.step = "raised"
    /\ "mode" \notin DOMAIN ProjectOf(op)
    /\ ~args.yes /\ ~args.dry_run
    /\ local_dirs = {}
    /\ cmds = <<>> /\ prompts = <<>> /\ temp_dirs = {} /\ next_tmp = 1

\* ------------------------------------------------------------------ C6

Results == {outcomes[k].result : k \in 1..Len(outcomes)}

CallsOf(kind, name) ==
    Cardinality({k \in 1..Len(calls) : calls[k] = [kind |-> kind, name |-> name]})

\* C7: sync_all calls pull_project exactly once for every project whose
\* mode is pull or both (and for no other), whatever the pulls before it
\* did; no project is pulled twice at any time.
C7_EveryEligiblePulled ==
    args.command = "sync-all" =>
        \A i \in 1..Len(config.projects) :
            LET name == config.projects[i].name
                eligible == ModeOf(config.projects[i]) \in {"pull", "both"}
            IN  /\ CallsOf("pull", name) <= 1
                /\ ~eligible => CallsOf("pull", name) = 0
                /\ (pc = "exit" /\ exit_code # 1 /\ eligible) => CallsOf("pull", name) = 1

\* Three eligible projects, the first pull failed, the other two were made.
C7_Witness ==
    /\ pc = "exit"
    /\ args.command = "sync-all"
    /\ Len(config.projects) = 3
    /\ Len(outcomes) >= 3
    /\ outcomes[1].result = "RuntimeError"
    /\ outcomes[2].result = "ok"
    /\ outcomes[3].result = "ok"
    /\ CallsOf("pull", Name(2)) = 1
    /\ CallsOf("pull", Name(3)) = 1

\* ------------------------------------------------------------------ C8

\* The calls that ended with an exception, as (name, exception), in order.
RECURSIVE FailedFrom(_, _)
FailedFrom(os, k) ==
    IF k > Len(os) THEN <<>>
    ELSE IF os[k].result \in {"ok", "cancelled"}
         THEN FailedFrom(os, k + 1)
         ELSE <<<<os[k].name, os[k].result>>>> \o FailedFrom(os, k + 1)

\* The calls sync_all owes: a pull per pull/both project, then, with
\* include_push, a push per both project, in registry order.
RECURSIVE OwedFrom(_, _, _)
OwedFrom(kind, modes, i) ==
    IF i > Len(config.projects) THEN <<>>
    ELSE IF ModeOf(config.projects[i]) \in modes
         THEN <<[kind |-> kind, name |-> config.projects[i].name]>>
                  \o OwedFrom(kind, modes, i + 1)
         ELSE OwedFrom(kind, modes, i + 1)

\* C8: sync_all raises its aggregate error exactly when some per-project
\* call raised, it does so only after every owed call was made, and its
\* failure list is the list of the calls that raised, each with its cause.
C8_AggregateFailure ==
    (args.command = "sync-all" /\ pc \in {"sync_all", "exit"}) =>
        /\ op.kind = "none" => failures = FailedFrom(outcomes, 1)
        /\ sa.phase = "raised" =>
               /\ pc = "exit"
               /\ failures # <<>>
        /\ (pc = "exit" /\ exit_code # 1) =>
               /\ sa.phase = "raised" <=> FailedFrom(outcomes, 1) # <<>>
               /\ sa.phase = "returned" <=> FailedFrom(outcomes, 1) = <<>>
               /\ exit_code = (IF FailedFrom(outcomes, 1) # <<>> THEN 3 ELSE 0)
               /\ failures = FailedFrom(outcomes, 1)
               /\ Len(outcomes) = Len(calls)
               /\ calls = OwedFrom("pull", {"pull", "both"}, 1)
                            \o (IF args.include_push
                                THEN OwedFrom("push", {"both"}, 1) ELSE <<>>)

\* A batch with a success and two failures of different causes was reported.
C8_Witness ==
    /\ pc = "exit"
    /\ args.command = "sync-all"
    /\ sa.phase = "raised"
    /\ exit_code = 3
    /\ Len(failures) = 2
    /\ failures[1][2] = "RuntimeError"
    /\ failures[2][2] = "OSError"
    /\ "ok" \in Results

\* ------------------------------------------------------------------ C9

Decodable(fs) == {k \in 1..Len(fs) : fs[k].decodable}

\* C9 as stated: once the enumeration is over, the count the walk reports is
\* the number of content files, decodable or not, and at most the decodable
\* ones were written.
C9_VisitedCountsEveryFile ==
    (op.step = "final" /\ widx > Len(files)) =>
        /\ count = Len(files)
        /\ Cardinality(writes) <= Cardinality(Decodable(files))

\* ----------------------------------------------------------------- C10

\* The answers that are y or yes once blanks and case are put aside.
YesAnswers == {<<"y">>, <<" ", "Y", "e", "s", " ">>, <<"Y", "E", "S">>}

\* C10: a push called with confirm true and no dry run creates no staging
\* directory and issues no transfer command unless the answer to its prompt
\* was y or yes; a declined push returns normally, main ends with status 0,
\* and nothing was transferred.
C10_PushConfirmationGate ==
    (op.kind = "push" /\ op.confirm /\ ~op.dry_run) =>
        /\ (op.step \in {"check_local", "stage", "rewrite", "final", "finally"}
              \/ op.temp # 0 \/ temp_dirs # {} \/ cmds # <<>>) =>
               /\ Len(prompts) = 1
               /\ ~prompts[1].eof
               /\ prompts[1].response \in YesAnswers
        /\ (Len(prompts) = 1 /\ ~prompts[1].eof /\ prompts[1].response \notin YesAnswers
              /\ op.step # "prompt") =>
               /\ op.step = "returned"
               /\ op.exc = "none"
               /\ cmds = <<>>
               /\ temp_dirs = {} /\ next_tmp = 1
               /\ pc = "exit" => exit_code = 0

\* A push was declined with "yeah" and main ended with status 0.
C10_Witness ==
    /\ pc = "exit"
    /\ exit_code = 0
    /\ op.kind = "push" /\ op.confirm /\ ~op.dry_run
    /\ Len(prompts) = 1
    /\ prompts[1].response = <<"y", "e", "a", "h">>
    /\ cmds = <<>>
    /\ next_tmp = 1

\* ------------------------------------------------------------------ C11

\* A push call on a project whose mode is pull (or absent) that has left
\* its validation step.
PullOnlyPushPastValidation ==
    /\ op.kind = "push"
    /\ ModeOf(ProjectOf(op)) = "pull"
    /\ op.step # "validate"

\* C11 as stated: a push to a pull-only project always asks for
\* confirmation, with or without --yes: once the call is past validation a
\* prompt for that project has been shown.
C11_PullOnlyPushAsks ==
    PullOnlyPushPastValidation =>
        \E k \in 1..Len(prompts) : prompts[k].name = ProjectOf(op).name

\* C11 as amended: a push to a pull-only project is refused, with or
\* without --yes: the call raises SyncConfigError out of validation, no
\* prompt is shown, no transfer command is issued, no staging directory is
\* created, and main ends with status 2.
C11_PullOnlyPushRefused ==
    PullOnlyPushPastValidation =>
        /\ op.step = "raised"
        /\ op.exc = "SyncConfigError"
        /\ prompts = <<>>
        /\ cmds = <<>>
        /\ temp_dirs = {} /\ next_tmp = 1
        /\ pc = "exit" => exit_code = 2

\* `push p1 --yes` on a project of mode pull whose local directory exists
\* ended with status 2 and no prompt.
C11_Witness ==
    /\ pc = "exit"
    /\ exit_code = 2
    /\ args.command = "push" /\ args.yes /\ ~args.dry_run
    /\ op.kind = "push" /\ op.step = "raised"
    /\ "mode" \in DOMAIN ProjectOf(op) /\ ProjectOf(op).mode = "pull"
    /\ ProjectOf(op).name \in local_dirs
    /\ prompts = <<>> /\ cmds = <<>>

\* ------------------------------------------------------------------ C12

SingleCommand == args.command \in {"pull", "push"}

\* The outcomes of a run that has ended, told from what happened and not
\* from the status.
ConfigFailed == ~validate_config(config)

ValidationFailed ==
    /\ validate_config(config)
    /\ SingleCommand
    /\ \/ find_project(config, args.project) = 0
       \/ op.exc = "SyncConfigError"

TransferFailed ==
    /\ validate_config(config)
    /\ \/ SingleCommand /\ op.exc = "RuntimeError"
       \/ args.command = "sync-all" /\ failures # <<>>

Completed ==
    /\ validate_config(config)
    /\ \/ args.command = "list"
       \/ SingleCommand /\ op.step = "returned"
       \/ args.command = "sync-all" /\ failures = <<>>

\* C12 as stated: when a run has ended its status is 0 exactly when the
\* command completed without error (a declined push included), 1 exactly
\* when the configuration was rejected (and then nothing was started), 2
\* when the operation failed validation and 3 when a transfer failed or
\* sync-all had a failed project; no other status occurs.
C12_ExitCodesPartition ==
    pc = "exit" =>
        /\ exit_code \in {0, 1, 2, 3}
        /\ exit_code = 0 <=> Completed
        /\ exit_code = 1 <=> ConfigFailed
        /\ ConfigFailed => calls = <<>> /\ cmds = <<>> /\ prompts = <<>>
        /\ ValidationFailed => exit_code = 2
        /\ TransferFailed => exit_code = 3

\* ------------------------------------------------------------------ C13

\* load_config raised SyncConfigError: main returned 1 before its try block.
Rejected == pc = "exit" /\ exit_code = 1 /\ calls = <<>>

\* load_config returned the configuration.
Accepted == pc # "load" /\ ~Rejected

\* C13 as stated: every configuration validate_config accepts has rewrite
\* rules whose server side and mac side are both non-empty; one with an
\* empty side is rejected.
C13_AcceptedRulesNonEmpty ==
    Accepted =>
        \A i \in 1..Len(RulesOf(config)) :
            /\ Get(RulesOf(config)[i], "server") # <<>>
            /\ Get(RulesOf(config)[i], "mac") # <<>>

\* ------------------------------------------------------------------ C14

\* The positions of the projects called n.
Named(n) == {i \in 1..Len(config.projects) : config.projects[i].name = n}

DistinctNames ==
    \A i, j \in 1..Len(config.projects) :
        i # j => config.projects[i].name # config.projects[j].name

ValidModes ==
    \A i \in 1..Len(config.projects) :
        ModeOf(config.projects[i]) \in {"pull", "push", "both"}

\* C14: in every configuration load_config returned, project names are
\* pairwise distinct and every mode (pull when absent) is pull, push or both,
\* so find_project resolves a name to the one project of that name or to
\* none; a configuration with a duplicate name or an invalid mode is
\* rejected with status 1 before any call, prompt, command or staging
\* directory.
C14_RegistryInvariant ==
    /\ Accepted =>
          /\ DistinctNames
          /\ ValidModes
          /\ \A n \in ArgNames :
                 /\ Cardinality(Named(n)) <= 1
                 /\ Named(n) = IF find_project(config, n) = 0
                               THEN {} ELSE {find_project(config, n)}
    /\ (pc # "load" /\ ~(DistinctNames /\ ValidModes)) =>
          /\ Rejected
          /\ op.kind = "none"
          /\ cmds = <<>> /\ prompts = <<>> /\ outcomes = <<>>
          /\ temp_dirs = {} /\ next_tmp = 1

\* A configuration naming two projects p1, otherwise complete, was rejected
\* on `push p1 --yes`.
C14_Witness ==
    /\ Rejected
    /\ ~DistinctNames /\ ValidModes
    /\ {"ssh_alias", "paths", "projects", "rewrite_rules"} \subseteq DOMAIN config
    /\ args.command = "push" /\ args.project = "p1" /\ args.yes
    /\ op.kind = "none"

\* ------------------------------------------------------------------ C15

Last(s) == s[Len(s)]

\* The staging transfer of the running call is the last command issued, and
\* it exited with status 0.
StagedOk(c, o) ==
    /\ c # <<>>
    /\ Last(c).phase = "stage"
    /\ Last(c).ok
    /\ Last(c).by = o.kind
    /\ Last(c).dst = <<"temp", o.temp>>

\* The walk went through the whole enumeration: every decodable staged file
\* holds its rewritten text.
WalkComplete ==
    /\ RulesOf(config) = <<>> \/ widx > Len(files)
    /\ Len(files) = Len(staged)
    /\ \A i \in 1..Len(staged) :
           files[i].content =
               IF staged[i].decodable
               THEN apply_rewrites(staged[i].content, RulesOf(config),
                                   WalkDirection(op.kind))
               ELSE staged[i].content

\* C15: within one pull or push, the rewrite pass runs only after the
\* staging transfer exited with status 0; a finalizing transfer is issued
\* only by a call whose rewrite pass came to its end, right after that
\* call's successful staging transfer and out of the same staging
\* directory; after a staging transfer that exited non-zero or a rewrite
\* pass that aborted, the call issues no finalizing transfer.
C15_StepOrdering ==
    [][ /\ op'.step = "rewrite" => StagedOk(cmds', op')
        /\ op'.step = "final" => StagedOk(cmds', op')
        /\ \A k \in 1..Len(cmds') :
               cmds'[k].phase = "final" =>
                   /\ k > 1
                   /\ cmds'[k - 1].phase = "stage"
                   /\ cmds'[k - 1].ok
                   /\ cmds'[k - 1].by = cmds'[k].by
                   /\ cmds'[k - 1].name = cmds'[k].name
                   /\ cmds'[k - 1].dst = cmds'[k].src
        /\ (cmds' # cmds /\ Last(cmds').phase = "final") =>
               /\ op.step = "final"
               /\ op.exc = "none"
               /\ WalkComplete
        /\ op'.exc \in {"OSError", "UnicodeDecodeError"} =>
               /\ op'.step \in {"finally", "raised"}
               /\ StagedOk(cmds', op')
        /\ (/\ cmds' # <<>>
            /\ Last(cmds').phase = "stage" /\ ~Last(cmds').ok
            /\ Last(cmds').dst = <<"temp", op'.temp>>) =>
               /\ op'.exc = "RuntimeError"
               /\ op'.step \in {"finally", "raised"} ]_vars

\* In one batch a staging transfer failed, a rewrite pass aborted on a write
\* error, and now a finalizing transfer has been issued after a rewrite pass
\* that wrote a file.
C15_Witness ==
    /\ op.step = "finally" /\ op.exc = "none"
    /\ Last(cmds).phase = "final"
    /\ writes # {}
    /\ WalkComplete
    /\ \E k \in 1..Len(cmds) : cmds[k].phase = "stage" /\ ~cmds[k].ok
    /\ "OSError" \in Results

\* ------------------------------------------------------------------ C16

\* What apply_rewrites makes of the i-th staged file in the running call.
Transformed(i) ==
    apply_rewrites(staged[i].content, RulesOf(config), WalkDirection(op.kind))

\* C16: the walk writes a file only when rewriting changed its text: a
\* staged file that cannot be decoded, or whose rewritten text equals its
\* text, is never written by the running call and keeps its bytes; a file
\* that was written is
\* decodable, its rewritten text differs from its staged text, and it now
\* holds the rewritten text.
C16_WriteOnlyWhenChanged ==
    op.temp # 0 =>
        /\ Len(files) = Len(staged)
        /\ writes \subseteq 1..Len(staged)
        /\ \A i \in 1..Len(staged) :
               /\ (~staged[i].decodable \/ Transformed(i) = staged[i].content) =>
                      /\ i \notin writes
                      /\ files[i] = staged[i]
               /\ i \in writes =>
                      /\ staged[i].decodable
                      /\ Transformed(i) # staged[i].content
                      /\ files[i].content = Transformed(i)
                      /\ i < widx

\* A walk over a file the rule leaves as it is and a file the rule changes
\* has returned: only the second was written.
C16_Witness ==
    /\ op.step = "final"
    /\ Len(staged) = 2
    /\ staged[1].decodable /\ Transformed(1) = staged[1].content
    /\ staged[2].decodable /\ Transformed(2) # staged[2].content
    /\ RulesOf(config) # <<>>
    /\ writes = {2}
    /\ files[1] = staged[1]
    /\ files[2] # staged[2]

\* ------------------------------------------------------------------ C17

\* C17: an undecodable file never aborts the walk or the call: the step
\* that meets one goes on to the next file with nothing changed; the walk
\* ends only by returning, or on a write error at a decodable file whose text
\* changed; no call ever ends on a decode error; and once the walk has
\* returned, every decodable staged file, also one enumerated after an
\* undecodable file, holds its rewritten text, and the call is at or past its
\* finalizing transfer.
C17_UndecodableNeverAborts ==
    [][ /\ (/\ op.step = "rewrite"
            /\ widx \in 1..Len(files)
            /\ ~files[widx].decodable) =>
               /\ op' = op
               /\ widx' = widx + 1
               /\ files' = files
        /\ (op.step = "rewrite" /\ op'.step # "rewrite") =>
               \/ op'.step = "final" /\ op'.exc = "none"
               \/ /\ op'.exc = "OSError"
                  /\ staged[widx].decodable
                  /\ Transformed(widx) # staged[widx].content
        /\ op'.exc # "UnicodeDecodeError"
        /\ "UnicodeDecodeError" \notin {outcomes'[k].result : k \in 1..Len(outcomes')}
        /\ (op'.temp # 0 /\ op'.step \in {"final", "returned"}) =>
               /\ op'.exc = "none"
               /\ Len(files') = Len(staged')
               /\ \A i \in 1..Len(staged') :
                      staged'[i].decodable =>
                          files'[i].content =
                              apply_rewrites(staged'[i].content, RulesOf(config'),
                                             WalkDirection(op'.kind)) ]_vars

\* A call whose staged files were an undecodable file followed by a file
\* the rule changes has rewritten the second file and run its finalizing
\* transfer.
C17_Witness ==
    /\ op.step = "finally" /\ op.exc = "none"
    /\ Last(cmds).phase = "final" /\ Last(cmds).ok
    /\ Len(staged) = 2
    /\ ~staged[1].decodable
    /\ staged[2].decodable
    /\ files[2].content # staged[2].content
    /\ files[2].content = Transformed(2)
    /\ writes = {2}

\* ------------------------------------------------------------------ C18

\* The (source, target) pairs of the rules in configuration order.
ConfiguredPairs ==
    [i \in 1..Len(rules) |->
        <<Get(rules[i], source_key(direction)), Get(rules[i], target_key(direction))>>]

\* The pairs the filter of iter_rules lets through.
KeptPairs ==
    SelectSeq(ConfiguredPairs,
              LAMBDA p : p[1] # <<>> /\ p[2] # <<>> /\ p[1] # p[2])

OfLength(pairs, n) == SelectSeq(pairs, LAMBDA p : Len(p[1]) = n)

\* C18: for every pattern length, the pairs of that length are applied in
\* the order their rules have in the configuration: the pairs iter_rules
\* yields, restricted to one pattern length, are the non-filtered configured
\* pairs of that length in configuration order.
C18_StableTies ==
    rpc \in {"loop", "done", "roundtrip"} =>
        \A n \in {Len(ConfiguredPairs[i][1]) : i \in 1..Len(rules)} :
            OfLength(emitted, n) = OfLength(KeptPairs, n)

\* Two different rules with patterns of equal length were applied in
\* configuration order, and the other order would have given another text.
C18_Witness ==
    /\ rpc = "done"
    /\ Len(rules) = 2
    /\ emitted = KeptPairs
    /\ Len(emitted) = 2
    /\ Len(emitted[1][1]) = Len(emitted[2][1])
    /\ emitted[1] # emitted[2]
    /\ updated = Replace(Replace(text, emitted[1][1], emitted[1][2]),
                         emitted[2][1], emitted[2][2])
    /\ updated # Replace(Replace(text, emitted[2][1], emitted[2][2]),
                         emitted[1][1], emitted[1][2])

\* ------------------------------------------------------------------ C19

\* C19: of the runs that are between mkdtemp and the end of their finally
\* block, no two have the same staging directory, whatever their projects
\* and directions; a run's staging directory exists for as long as the run
\* holds it and contains nothing another run put there, and what a run
\* rewrites and what it sends on are only files of its own staging transfer.
C19_ExclusiveStaging ==
    \A i \in DOMAIN invocations :
        /\ invocations[i].step \in Holding =>
               /\ scratch[invocations[i].temp].exists
               /\ scratch[invocations[i].temp].holds \subseteq {i}
               /\ \A j \in DOMAIN invocations :
                      (j # i /\ invocations[j].step \in Holding) =>
                          invocations[j].temp # invocations[i].temp
        /\ invocations[i].step \in {"rewrite", "final"} =>
               scratch[invocations[i].temp].holds = {i}
        /\ invocations[i].read \subseteq {i}
        /\ invocations[i].sent \subseteq {i}

\* Two runs of the same command on the same project are both about to run
\* their finalizing transfer, each out of its own staging directory.
C19_Witness ==
    /\ DOMAIN invocations = 1..MaxInvocations
    /\ invocations[1].kind = invocations[2].kind
    /\ invocations[1].name = invocations[2].name
    /\ invocations[1].step = "final"
    /\ invocations[2].step = "final"
    /\ invocations[1].temp # invocations[2].temp
    /\ invocations[1].read = {1}
    /\ invocations[2].read = {2}

\* ------------------------------------------------------------------ C20

\* The calls of pull_project / push_project that have begun and not ended.
InProgress == Len(calls) - Len(outcomes)

RECURSIVE FoldLeft(_, _, _)
FoldLeft(t, pairs, n) ==
    IF n = 0 THEN t
    ELSE Replace(FoldLeft(t, pairs, n - 1), pairs[n][1], pairs[n][2])

\* C21: the rules are applied over the cumulative result, with no guard
\* against collisions: after k iterations `updated` is the left fold of
\* replace-all over the first k yielded pairs, and the returned text is the
\* fold over all of them; right after a pair was applied no occurrence of its
\* pattern is left, wherever it came from, unless the pair's own replacement
\* text shares a character with the pattern.
C21_CumulativeFold ==
    /\ rpc = "loop" => updated = FoldLeft(text, emitted, idx - 1)
    /\ rpc \in {"done", "roundtrip"} =>
           /\ updated = FoldLeft(text, emitted, Len(emitted))
           /\ updated = apply_rewrites(text, rules, direction)
    /\ (rpc = "loop" /\ idx > 1
          /\ CharsOf(emitted[idx - 1][1]) \cap CharsOf(emitted[idx - 1][2]) = {}) =>
           ~IsSubstring(emitted[idx - 1][1], updated)

\* The second pair's pattern did not occur in the input; the first pair's
\* replacement created it, and the second pair rewrote it in the same pass.
C21_Witness ==
    /\ rpc = "done"
    /\ Len(emitted) = 2
    /\ ~IsSubstring(emitted[2][1], text)
    /\ IsSubstring(emitted[2][1], Replace(text, emitted[1][1], emitted[1][2]))
    /\ updated # Replace(text, emitted[1][1], emitted[1][2])
    /\ updated = Replace(Replace(text, emitted[1][1], emitted[1][2]),
                         emitted[2][1], emitted[2][2])

\* ------------------------------------------------------------------ C22

HasDryRunFlag(cmd) == \E k \in 1..Len(cmd.argv) : cmd.argv[k] = "--dry-run"

\* C22: in a run with --dry-run every command handed to run_cmd, the
\* staging and the finalizing transfer of every pull and push, is rsync with
\* --dry-run as its first option, every call of pull_project and
\* push_project is made with dry_run set, and no prompt is shown.
C22_DryRunSafety ==
    (pc # "off" /\ args.dry_run) =>
        /\ \A k \in 1..Len(cmds) :
               /\ cmds[k].argv[1] = "rsync"
               /\ cmds[k].argv[2] = "--dry-run"
               /\ HasDryRunFlag(cmds[k])
        /\ prompts = <<>>
        /\ op.step # "prompt"
        /\ op.kind # "none" => op.dry_run /\ ~needs_prompt(op.confirm, op.dry_run)

\* `sync-all --dry-run --include-push` has ended after a pull and a push
\* that each ran their staging and their finalizing transfer.
C22_Witness ==
    /\ pc = "exit"
    /\ args.command = "sync-all" /\ args.dry_run /\ args.include_push
    /\ \E i, j, k, l \in 1..Len(cmds) :
           /\ cmds[i].by = "pull" /\ cmds[i].phase = "stage"
           /\ cmds[j].by = "pull" /\ cmds[j].phase = "final"
           /\ cmds[k].by = "push" /\ cmds[k].phase = "stage"
           /\ cmds[l].by = "push" /\ cmds[l].phase = "final"
    /\ \A k \in 1..Len(cmds) : HasDryRunFlag(cmds[k])
    /\ prompts = <<>>

\* ------------------------------------------------------------------ C23

PushCalls == {k \in 1..Len(calls) : calls[k].kind = "push"}

PullCalls == {k \in 1..Len(calls) : calls[k].kind = "pull"}

\* C23: in sync_all, without include_push no push_project call is made;
\* with it, push_project is called only for projects of mode both, at most
\* once each, only after pull_project was called for every project of mode
\* pull or both, with confirm=False and without a prompt; and when the batch
\* has ended every project of mode both has had its push, also one whose pull
\* had failed.
C23_PushPhase ==
    args.command = "sync-all" =>
        /\ ~args.include_push => PushCalls = {}
        /\ prompts = <<>>
        /\ op.kind = "push" => ~op.confirm
        /\ \A k \in PushCalls :
               /\ \A j \in PullCalls : j < k
               /\ \A i \in 1..Len(config.projects) :
                      /\ config.projects[i].name = calls[k].name =>
                             ModeOf(config.projects[i]) = "both"
                      /\ ModeOf(config.projects[i]) \in {"pull", "both"} =>
                             CallsOf("pull", config.projects[i].name) = 1
        /\ \A i \in 1..Len(config.projects) :
               /\ CallsOf("push", config.projects[i].name) <= 1
               /\ (/\ pc = "exit" /\ Accepted
                   /\ args.include_push
                   /\ ModeOf(config.projects[i]) = "both") =>
                      CallsOf("push", config.projects[i].name) = 1

\* In a batch over a pull project, a both project and a push project, the
\* pull of the both project failed; its push was still made, after both
\* pulls, and ran its transfers; the push project was left alone.
C23_Witness ==
    /\ pc = "exit"
    /\ args.command = "sync-all" /\ args.include_push /\ ~args.dry_run
    /\ Len(config.projects) = 3
    /\ ModeOf(config.projects[1]) = "pull"
    /\ ModeOf(config.projects[2]) = "both"
    /\ ModeOf(config.projects[3]) = "push"
    /\ calls = <<[kind |-> "pull", name |-> Name(1)],
                 [kind |-> "pull", name |-> Name(2)],
                 [kind |-> "push", name |-> Name(2)]>>
    /\ outcomes[2].result = "RuntimeError"
    /\ outcomes[3].result = "ok"
    /\ prompts = <<>>

====
